---------------------------- MODULE Spec2Model ----------------------------
(***************************************************************************)
(* Model of the Bluesky listener worker (src/listeners/bluesky/main.py):   *)
(* the start-up configuration check, the one-shot roster fetch             *)
(* (fetch_subscribed_authors), and the reconnect loop of websocket_client  *)
(* with its per-message dispatch and its workflow-trigger call.            *)
(*                                                                         *)
(* JSON values that the code inspects with Python's truthiness, slicing or *)
(* dict lookups are tagged records [t, s, n]: t is the JSON type, s the    *)
(* characters (string) or items (array), n the number.                     *)
(***************************************************************************)
EXTENDS Integers, Sequences, FiniteSets, TLC

\* ------------------------------------------------------------------ bounds
\* Longest author array of a roster response.
MaxAuthors == 2
\* Messages the streaming feed delivers over the life of the process.
MaxMsgs == 2
\* Messages the websocket library buffers ahead of the read loop.
MaxQueue == 2

\* ------------------------------------------------------- program constants
\* post_text[:100] of the log line (main.py:97).
LogPreviewLen == 100
\* asyncio.sleep(10) of the generic error path (main.py:129).
ErrorDelay == 10
\* asyncio.sleep(5) after every pass of the loop (main.py:131).
BaselineDelay == 5

\* --------------------------------------------------------------- JSON values
JStr(chars) == [t |-> "string", s |-> chars, n |-> 0]
JNum(k) == [t |-> "number", s |-> <<>>, n |-> k]
JList(items) == [t |-> "array", s |-> items, n |-> 0]
\* Python None: a JSON null, or the default of dict.get for a missing key.
JNone == [t |-> "null", s |-> <<>>, n |-> 0]

\* Python truthiness (bool(v)) of a decoded JSON value.
Truthy(v) ==
    CASE v.t = "string" -> v.s /= <<>>
      [] v.t = "array" -> v.s /= <<>>
      [] v.t = "number" -> v.n /= 0
      [] OTHER -> FALSE

\* Whether v[:k] is defined: str and list are sliceable, None and numbers
\* raise TypeError.
Sliceable(v) == v.t \in {"string", "array"}

\* v[:k] for a sliceable value.
Slice(v, k) ==
    [v EXCEPT !.s = SubSeq(v.s, 1, IF Len(v.s) < k THEN Len(v.s) ELSE k)]

\* Marker for a key the JSON object does not carry, and for a value that
\* cannot be a dict key (a JSON array or object: TypeError, unhashable).
Missing == "<missing>"
Unhashable == "<unhashable>"

\* -------------------------------------------------------------- the roster
\* os.environ.get values of the two settings.
BaseUrls == {Missing, "", "https://api/"}
ApiKeys == {Missing, "secret"}

\* A non-dict element of the author array (author.get raises AttributeError).
NotAnObject == [obj |-> FALSE, platform_id |-> Missing, id |-> JNone,
                name |-> Missing, author_context |-> Missing]

Author(pid, id, name, ctx) ==
    [obj |-> TRUE, platform_id |-> pid, id |-> id, name |-> name,
     author_context |-> ctx]

\* The entries a Control API response is built from.
Authors ==
    { Author("did:abc", JNum(42), "A", Missing),
      Author("did:xyz", JNum(7), "B", "ctx"),
      Author("did:abc", JNum(0), "A0", Missing),
      Author(Missing, JNum(9), "C", Missing),
      NotAnObject }

RECURSIVE SeqsUpTo(_, _)
SeqsUpTo(S, k) ==
    IF k = 0 THEN {<<>>}
    ELSE LET shorter == SeqsUpTo(S, k - 1)
         IN  shorter \cup {Append(q, x) : q \in {r \in shorter : Len(r) = k - 1}, x \in S}

\* What client.get / raise_for_status / response.json() can produce for the
\* roster request: an exception, or a decoded body (array, null or object).
Responses ==
    { [status |-> st, body |-> "none", authors |-> <<>>] :
        st \in {"request_error", "http_status_error", "decode_error"} }
    \cup { [status |-> "ok", body |-> "array", authors |-> a] :
             a \in SeqsUpTo(Authors, MaxAuthors) }
    \cup { [status |-> "ok", body |-> b, authors |-> <<>>] : b \in {"null", "object"} }

NoResponse == [status |-> "none", body |-> "none", authors |-> <<>>]

\* The empty SUBSCRIBED_AUTHORS_DATA dict.
EmptyRoster == [k \in {} |-> JNone]

\* The record stored per author (main.py:50-54).
RosterRecord(author) ==
    [id |-> author.id, name |-> author.name, author_context |-> author.author_context]

\* SUBSCRIBED_AUTHORS_DATA[did] = record.
Store(roster, did, record) ==
    [k \in DOMAIN roster \cup {did} |-> IF k = did THEN record ELSE roster[k]]

\* AuthorStep without `if did:`: every object of the array is stored, under
\* whatever author.get('platform_id') gave.
AuthorStepUnfiltered(st, author) ==
    IF st.raised THEN st
    ELSE IF ~author.obj THEN [st EXCEPT !.raised = TRUE]
    ELSE [roster |-> Store(st.roster, author.platform_id, RosterRecord(author)),
          dids |-> Append(st.dids, author.platform_id),
          raised |-> FALSE]

\* One pass of the loop body for one author (main.py:47-54): the state is
\* [roster, dids, raised]; once an exception is raised the rest is skipped.
AuthorStep(st, author) ==
    IF st.raised THEN st
    ELSE IF ~author.obj THEN [st EXCEPT !.raised = TRUE]
    ELSE IF author.platform_id \in {Missing, ""} THEN st
    ELSE IF author.platform_id = Unhashable
         THEN [st EXCEPT !.dids = Append(@, author.platform_id), !.raised = TRUE]
    ELSE [roster |-> Store(st.roster, author.platform_id, RosterRecord(author)),
          dids |-> Append(st.dids, author.platform_id),
          raised |-> FALSE]

RECURSIVE AuthorLoop(_, _, _)
AuthorLoop(st, authors, i) ==
    IF i > Len(authors) THEN st
    ELSE AuthorLoop(AuthorStep(st, authors[i]), authors, i + 1)

\* fetch_subscribed_authors: the roster it leaves in SUBSCRIBED_AUTHORS_DATA
\* and the list it returns, given the roster before and the API's response.
FetchSubscribedAuthors(before, resp) ==
    IF resp.status /= "ok" THEN [roster |-> before, dids |-> <<>>]
    ELSE IF resp.body = "null" \/ (resp.body = "array" /\ resp.authors = <<>>)
         THEN [roster |-> before, dids |-> <<>>]
    ELSE IF resp.body = "object"
         THEN [roster |-> EmptyRoster, dids |-> <<>>]
    ELSE LET end == AuthorLoop([roster |-> EmptyRoster, dids |-> <<>>, raised |-> FALSE],
                               resp.authors, 1)
         IN  [roster |-> end.roster,
              dids |-> IF end.raised THEN <<>> ELSE end.dids]


\* ------------------------------------------------------------ stream events
\* A raw websocket message: json says whether json.loads accepts it, top the
\* type of the decoded value, and the other fields are what data.get,
\* commit.get and record.get find (Missing: the key is not there).
Message(kind, operation, did, collection, text) ==
    [json |-> "valid", top |-> "object", kind |-> kind, commit |-> "object",
     operation |-> operation, did |-> did, collection |-> collection,
     record |-> "object", text |-> text]

PostCollection == "app.bsky.feed.post"

\* record.get("text", "") when the record has no text.
NoText == [t |-> "missing", s |-> <<>>, n |-> 0]

Hello == JStr(<<"h", "e", "l", "l", "o">>)
\* A post one character longer than the log line's preview.
LongText == JStr([i \in 1..(LogPreviewLen + 1) |-> "x"])

Post(did, text) == Message("commit", "create", did, PostCollection, text)

\* No message: the value of cur before the first message is read.
NoMessage == [Post(Missing, NoText) EXCEPT !.json = "none"]

\* The messages the feed can deliver.
Messages ==
    { Post("did:abc", Hello), Post("did:abc", LongText),
      Post("did:unk", Hello),
      Post("did:abc", JStr(<<>>)), Post("did:abc", NoText),
      Message("identity", "create", "did:abc", PostCollection, Hello),
      Message("commit", "update", "did:abc", PostCollection, Hello),
      Message("commit", "delete", "did:abc", PostCollection, Hello),
      Message("commit", "create", "did:abc", "app.bsky.feed.like", Hello),
      [Post("did:abc", Hello) EXCEPT !.json = "invalid"],
      [Post("did:abc", Hello) EXCEPT !.top = "array"],
      [Post("did:abc", Hello) EXCEPT !.commit = "null"],
      Post(Unhashable, Hello),
      Post("did:abc", JNum(5)),
      Post("did:abc", JList(<<"x">>)) }

\* AuthorId with a made-up id for a did the roster does not hold.
AuthorIdDefaulted(roster, did) ==
    IF did \in DOMAIN roster THEN roster[did].id ELSE JNum(1)

\* SUBSCRIBED_AUTHORS_DATA.get(did, {}).get("id") (main.py:90-91).
AuthorId(roster, did) ==
    IF did \in DOMAIN roster THEN roster[did].id ELSE JNone

\* record.get("text", "") (main.py:96).
PostText(m) == IF m.text.t = "missing" THEN JStr(<<>>) ELSE m.text

\* Payload carrying the log line's preview instead of the text.
PayloadOfPreview(author_id, post_text) ==
    [tweet_author_id |-> author_id, tweet_content |-> Slice(post_text, LogPreviewLen)]

\* The body sent to process-tweet/trigger-workflow (main.py:101-104).
Payload(author_id, post_text) ==
    [tweet_author_id |-> author_id, tweet_content |-> post_text]

NoPayload == Payload(JNone, JNone)

\* OperationEligible letting updates through as well.
OperationEligibleOrUpdate(m) == m.operation \in {"create", "update"}

\* The three filters (main.py:86, 88, 94).
KindEligible(m) == m.kind = "commit"
OperationEligible(m) == m.commit /= Missing /\ m.operation = "create"
CollectionEligible(m) == m.collection = PostCollection

\* The dispatch of one message up to the point where it either ends or
\* awaits the POST (main.py:84-112, 120-123): what it comes to, and the
\* payload when it is "post".
\*   decode_error  json.loads raised JSONDecodeError (line 120)
\*   error         any other exception, caught at line 122
\*   ignored       kind, operation or collection did not match
\*   dropped       no author id or no text
\*   post          client.post is called
Dispatch(roster, m) ==
    LET none(what) == [result |-> what, payload |-> NoPayload]
    IN  IF m.json /= "valid" THEN none("decode_error")
        ELSE IF m.top /= "object" THEN none("error")
        ELSE IF ~KindEligible(m) THEN none("ignored")
        ELSE IF m.commit = "null" THEN none("error")
        ELSE IF ~OperationEligible(m) THEN none("ignored")
        ELSE IF m.did = Unhashable THEN none("error")
        ELSE IF ~CollectionEligible(m) THEN none("ignored")
        ELSE IF m.record = "null" THEN none("error")
        ELSE IF ~Sliceable(PostText(m)) THEN none("error")
        ELSE IF Truthy(AuthorId(roster, m.did)) /\ Truthy(PostText(m))
             THEN [result |-> "post",
                   payload |-> Payload(AuthorId(roster, m.did), PostText(m))]
        ELSE none("dropped")


\* -------------------------------------------------------------------- state
VARIABLES
    pc,                       \* where the process is (see ConnState)
    API_BASE_URL,             \* os.environ.get("API_BASE_URL")
    ADMIN_API_KEY,            \* os.environ.get("ADMIN_API_KEY")
    response,                 \* what the roster request came to (a local of
                              \* the fetch, gone once the loop is entered)
    SUBSCRIBED_AUTHORS_DATA,  \* the roster: did -> record
    subscribed_dids,          \* what fetch_subscribed_authors returned
    wanted,                   \* the wantedDids of websocket_url
    connections,              \* websocket connections open
    queue,                    \* messages received and not yet read by the loop
    cur,                      \* the message of the latest dispatch
    outcome,                  \* what the latest dispatch came to
    payload,                  \* the body of the latest POST
    received,                 \* messages the loop has read
    forwards,                 \* POSTs issued
    cause,                    \* how the connection (attempt) before this one ended
    slept                     \* time slept since it ended

vars ==
    <<pc, API_BASE_URL, ADMIN_API_KEY, response, SUBSCRIBED_AUTHORS_DATA,
      subscribed_dids, wanted, connections, queue, cur, outcome, payload,
      received, forwards, cause, slept>>

config == <<API_BASE_URL, ADMIN_API_KEY>>
rosterVars == <<response, SUBSCRIBED_AUTHORS_DATA, subscribed_dids>>
dispatchVars == <<cur, outcome, payload, received, forwards>>
backoffVars == <<cause, slept>>

\* The connection manager's state, read off the position in websocket_client:
\* before the loop (or after the early return) it is Idle; in the loop it is
\* Connecting at websockets.connect, Connected while reading and dispatching,
\* and in Backoff from the exception handlers to the end of the last sleep.
ConnState ==
    CASE pc = "connect" -> "Connecting"
      [] pc \in {"recv", "post"} -> "Connected"
      [] pc \in {"sleep_error", "sleep_baseline"} -> "Backoff"
      [] OTHER -> "Idle"

Init ==
    /\ pc = "config"
    /\ API_BASE_URL \in BaseUrls
    /\ ADMIN_API_KEY \in ApiKeys
    /\ response = NoResponse
    /\ SUBSCRIBED_AUTHORS_DATA = EmptyRoster
    /\ subscribed_dids = <<>>
    /\ wanted = <<>>
    /\ connections = 0
    /\ queue = <<>>
    /\ cur = NoMessage
    /\ outcome = "none"
    /\ payload = NoPayload
    /\ received = 0
    /\ forwards = 0
    /\ cause = "none"
    /\ slept = 0

\* ------------------------------------------------------------------ start-up
\* ConfigMissing with the check left out.
ConfigMissingNever(url) == FALSE

\* `if not API_BASE_URL` (main.py:18).
ConfigMissing(url) == url \in {Missing, ""}

\* Module level (main.py:14-20): exit() without a base URL, otherwise on to
\* asyncio.run(main()).
ConfigCheck ==
    /\ pc = "config"
    /\ pc' = IF ConfigMissing(API_BASE_URL) THEN "exited" ELSE "fetch"
    /\ UNCHANGED <<config, rosterVars, wanted, connections, queue, dispatchVars, backoffVars>>

\* main.py:136: subscribed_dids = await fetch_subscribed_authors().
Fetch ==
    /\ pc = "fetch"
    /\ \E resp \in Responses :
         LET got == FetchSubscribedAuthors(SUBSCRIBED_AUTHORS_DATA, resp)
         IN  /\ response' = resp
             /\ SUBSCRIBED_AUTHORS_DATA' = got.roster
             /\ subscribed_dids' = got.dids
    /\ pc' = "client"
    /\ UNCHANGED <<config, wanted, connections, queue, dispatchVars, backoffVars>>

\* ClientEntry without the early return.
ClientEntryUnguarded(dids) == "connect"

\* `if not subscribed_dids: return` (main.py:71-73): where websocket_client
\* goes from its first line. Returning ends main() and, with it,
\* asyncio.run: the process exits.
ClientEntry(dids) == IF dids = <<>> THEN "exited" ELSE "connect"

\* WantedDids subscribing to the first did only.
WantedDidsFirstOnly(dids) == <<Head(dids)>>

\* The wantedDids parameters of websocket_url (main.py:75-77): one per element
\* of the list, in order.
WantedDids(dids) == dids

\* main.py:66-79: the early return, or the URL built once from all dids and
\* the first pass of the loop. Nothing in the loop can reach the response of
\* the roster request.
ClientStart ==
    /\ pc = "client"
    /\ pc' = ClientEntry(subscribed_dids)
    /\ wanted' = IF subscribed_dids = <<>> THEN wanted ELSE WantedDids(subscribed_dids)
    /\ response' = IF subscribed_dids = <<>> THEN response ELSE NoResponse
    /\ UNCHANGED <<config, SUBSCRIBED_AUTHORS_DATA, subscribed_dids, connections, queue,
                   dispatchVars, backoffVars>>

\* --------------------------------------------------------- the reconnect loop
\* The ways a connection, or an attempt at one, ends:
\*   closed_ok     the peer closed cleanly: `async for` ends without raising
\*   closed_error  ConnectionClosedError, caught as ConnectionClosed (line 125)
\*   error         any other exception (line 127)
CloseKinds == {"closed_ok", "closed_error", "error"}

\* BackoffEntry without the sleep of the generic handler.
BackoffEntryBaselineOnly(kind) == "sleep_baseline"

\* BackoffEntry with the generic handler missing: the exception leaves
\* websocket_client, main() and asyncio.run.
BackoffEntryUncaught(kind) == IF kind = "error" THEN "exited" ELSE "sleep_baseline"

\* Where each ending continues (main.py:125-131): only the generic handler
\* sleeps before the sleep every pass ends with.
BackoffEntry(kind) == IF kind = "error" THEN "sleep_error" ELSE "sleep_baseline"

\* websockets.connect succeeded (main.py:81-82).
ConnectOk ==
    /\ pc = "connect"
    /\ pc' = "recv"
    /\ queue' = <<>>
    /\ cause' = "none"
    /\ slept' = 0
    /\ connections' = connections + 1
    /\ UNCHANGED <<config, rosterVars, wanted, dispatchVars>>

\* ConnectFailure taken for a closed connection.
ConnectFailureAsClosed == "closed_error"

\* What a failed websockets.connect (main.py:81) is to the handlers: refused
\* connections, failed handshakes and timeouts are not ConnectionClosed, so
\* line 127 catches them.
ConnectFailure == "error"

\* websockets.connect raised.
ConnectFail ==
    /\ pc = "connect"
    /\ cause' = ConnectFailure
    /\ slept' = 0
    /\ pc' = BackoffEntry(ConnectFailure)
    /\ UNCHANGED <<config, rosterVars, wanted, connections, queue, dispatchVars>>

\* Buffered keeping only the newest message.
BufferedNewestOnly(q, m) == <<m>>

\* The library's receive buffer after one more message: appended, in arrival
\* order, behind those the loop has not read yet.
Buffered(q, m) == Append(q, m)

\* NextMessage taking the newest message first.
NextMessageNewest(q) == q[Len(q)]

\* What `async for message in websocket` yields next (main.py:83): the
\* oldest message not yet read.
NextMessage(q) == Head(q)

\* The feed sends a message; the library buffers it until the loop reads it.
Arrive ==
    /\ pc \in {"recv", "post"}
    /\ Len(queue) < MaxQueue
    /\ received + Len(queue) < MaxMsgs
    /\ \E m \in Messages : queue' = Buffered(queue, m)
    /\ UNCHANGED <<pc, config, rosterVars, wanted, connections, dispatchVars, backoffVars>>

\* RosterAfterLookup with setdefault in place of get: a commit/create message
\* from a did the roster does not hold adds an empty record for it.
RosterAfterSetdefault(roster, m) ==
    IF /\ m.json = "valid" /\ m.top = "object" /\ m.commit = "object"
       /\ KindEligible(m) /\ OperationEligible(m)
       /\ m.did \notin DOMAIN roster \cup {Unhashable}
    THEN Store(roster, m.did, [id |-> JNone, name |-> Missing, author_context |-> Missing])
    ELSE roster

\* The roster after the dispatch of m: SUBSCRIBED_AUTHORS_DATA.get(did, {})
\* (main.py:90) reads, and nothing else in the loop names the roster.
RosterAfterLookup(roster, m) == roster

\* Where the loop is after the synchronous part of a dispatch: awaiting the
\* POST, or (every exception caught at lines 120-123) back at the read.
AfterDispatch(result) == IF result = "post" THEN "post" ELSE "recv"

\* One pass of `async for message in websocket` up to its first await
\* (main.py:83-112).
Receive ==
    /\ pc = "recv"
    /\ queue /= <<>>
    /\ LET d == Dispatch(SUBSCRIBED_AUTHORS_DATA, NextMessage(queue))
       IN  /\ cur' = NextMessage(queue)
           /\ outcome' = d.result
           /\ payload' = d.payload
           /\ forwards' = IF d.result = "post" THEN forwards + 1 ELSE forwards
           /\ pc' = AfterDispatch(d.result)
    /\ SUBSCRIBED_AUTHORS_DATA' =
         RosterAfterLookup(SUBSCRIBED_AUTHORS_DATA, NextMessage(queue))
    /\ queue' = Tail(queue)
    /\ received' = received + 1
    /\ UNCHANGED <<config, response, subscribed_dids, wanted, connections, backoffVars>>

\* How client.post / raise_for_status end (main.py:112-118, 122):
\*   sent               2xx
\*   http_status_error  4xx/5xx, caught at line 115
\*   request_error      transport error or timeout, caught at line 117
\*   other_error        anything else, caught at line 122
ForwardResults == {"sent", "http_status_error", "request_error", "other_error"}

\* AfterForward with line 122 missing: an error that is neither of the two
\* httpx kinds leaves the read loop for the generic handler.
AfterForwardUncaught(result) == IF result = "other_error" THEN "sleep_error" ELSE "recv"

\* Where the loop is once the POST has ended: every handler only logs.
AfterForward(result) == "recv"

ForwardDone ==
    /\ pc = "post"
    /\ \E r \in ForwardResults :
         /\ outcome' = r
         /\ pc' = AfterForward(r)
    /\ UNCHANGED <<config, rosterVars, wanted, connections, queue, cur, payload, received,
                   forwards, backoffVars>>

\* AfterClose of a loop that does not close the connection it leaves.
AfterCloseLeaked(n) == n

\* The open connections once `async with websockets.connect(...)` (main.py:81)
\* is left, normally or by an exception: its exit closes the connection.
AfterClose(n) == n - 1

\* The connection ends while the loop waits for the next message. Buffered
\* messages are read before a closure is reported.
Disconnect ==
    /\ pc = "recv"
    /\ \E kind \in CloseKinds :
         /\ kind /= "error" => queue = <<>>
         /\ cause' = kind
         /\ pc' = BackoffEntry(kind)
    /\ slept' = 0
    /\ queue' = <<>>
    /\ connections' = AfterClose(connections)
    /\ UNCHANGED <<config, rosterVars, wanted, dispatchVars>>

\* await asyncio.sleep(10) (main.py:129).
SleepError ==
    /\ pc = "sleep_error"
    /\ slept' = slept + ErrorDelay
    /\ pc' = "sleep_baseline"
    /\ UNCHANGED <<config, rosterVars, wanted, connections, queue, dispatchVars, cause>>

\* NextPass of a loop that makes a single pass.
NextPassNone == "exited"

\* `while True` (main.py:79): after the last sleep comes the next attempt.
NextPass == "connect"

\* await asyncio.sleep(5) (main.py:131), then the next pass of `while True`.
SleepBaseline ==
    /\ pc = "sleep_baseline"
    /\ slept' = slept + BaselineDelay
    /\ pc' = NextPass
    /\ UNCHANGED <<config, rosterVars, wanted, connections, queue, dispatchVars, cause>>

Next ==
    \/ ConfigCheck
    \/ Fetch
    \/ ClientStart
    \/ ConnectOk
    \/ ConnectFail
    \/ Arrive
    \/ Receive
    \/ ForwardDone
    \/ Disconnect
    \/ SleepError
    \/ SleepBaseline

Spec == Init /\ [][Next]_vars

\* The two sleeps are timers of the event loop: each one, once started, ends.
FairSpec == Spec /\ WF_vars(SleepError) /\ WF_vars(SleepBaseline)

\* The POST ends (client.post has timeout=15.0, main.py:112), and the loop,
\* once back at the read, takes a buffered message.
FairDispatchSpec == Spec /\ WF_vars(ForwardDone) /\ WF_vars(Receive)


\* ==================================================================== claims
\* A step in which the loop reads the message at the head of the buffer.
ReceiveStep == received' = received + 1

\* The message has the shape of section 6 of the specification: a JSON object
\* with a commit object, a record object, a did that can be a key, and a text
\* that is a string or is not there.
ExpectedShape(m) ==
    /\ m.json = "valid" /\ m.top = "object"
    /\ m.commit = "object" /\ m.record = "object"
    /\ m.did /= Unhashable
    /\ m.text.t \in {"string", "missing"}

\* A new post: kind commit, operation create, collection app.bsky.feed.post.
NewPost(m) ==
    m.kind = "commit" /\ m.operation = "create" /\ m.collection = PostCollection

\* A new post of the expected shape from a did of the roster, with text.
PostOfKnownAuthor(m) ==
    /\ ExpectedShape(m) /\ NewPost(m)
    /\ m.did \in DOMAIN SUBSCRIBED_AUTHORS_DATA
    /\ m.text.t = "string" /\ m.text.s /= <<>>

\* Exactly one POST for the message read in this step, with the roster's id
\* for its did and its whole text.
ForwardsHead ==
    /\ forwards' = forwards + 1
    /\ pc' = "post"
    /\ payload' = [tweet_author_id |-> SUBSCRIBED_AUTHORS_DATA[Head(queue).did].id,
                   tweet_content |-> Head(queue).text]

\* C1 as stated: for every message with kind commit, operation create,
\* collection app.bsky.feed.post, a did of the roster and non-empty text, and
\* for every record the roster can hold for that did, exactly one forward call
\* is issued, with the roster's id and the whole text.
C1_AsStated ==
    [][ReceiveStep /\ PostOfKnownAuthor(Head(queue)) => ForwardsHead]_vars

\* C1 amended: the same, for the records whose id is non-empty (truthy: not
\* null, not 0); and the wait for the POST issues no further call.
C1_ForwardsOncePerPost ==
    [][/\ ReceiveStep /\ PostOfKnownAuthor(Head(queue))
          /\ Truthy(SUBSCRIBED_AUTHORS_DATA[Head(queue).did].id)
          => ForwardsHead
       /\ pc = "post" => forwards' = forwards]_vars

\* C1 witness: the POST for a post longer than the log preview is in flight,
\* carrying id 42 and all of the text.
C1_Witness ==
    /\ pc = "post"
    /\ cur = Post("did:abc", LongText)
    /\ forwards = 1
    /\ payload.tweet_author_id = JNum(42)
    /\ payload.tweet_content = LongText
    /\ Len(payload.tweet_content.s) > LogPreviewLen

\* C2: a decoded message whose kind is not commit, or whose operation is not
\* create, or whose collection is not app.bsky.feed.post causes no forward
\* call and leaves the roster and the connection state as they were.
C2_IneligibleIsNoOp ==
    [][/\ ReceiveStep
       /\ Head(queue).json = "valid" /\ Head(queue).top = "object"
       /\ Head(queue).commit /= "null"
       /\ ~NewPost(Head(queue))
       => /\ forwards' = forwards
          /\ pc' = pc
          /\ UNCHANGED <<rosterVars, wanted, backoffVars, config>>]_vars

\* C2 witness: an update of a roster author's post was read and ignored.
C2_Witness ==
    /\ pc = "recv"
    /\ cur = Message("commit", "update", "did:abc", PostCollection, Hello)
    /\ "did:abc" \in DOMAIN SUBSCRIBED_AUTHORS_DATA
    /\ Truthy(SUBSCRIBED_AUTHORS_DATA["did:abc"].id)
    /\ outcome = "ignored"
    /\ received = 1 /\ forwards = 0

\* C3: a message of the expected shape whose did is not in the roster, or
\* whose text is empty or missing, causes no forward call and no error: the
\* lookup of an unknown did gives no id, the event is ignored or dropped, and
\* the connection stays Connected.
C3_UnknownOrEmptyIsDropped ==
    [][/\ ReceiveStep /\ ExpectedShape(Head(queue))
       /\ \/ Head(queue).did \notin DOMAIN SUBSCRIBED_AUTHORS_DATA
          \/ PostText(Head(queue)).s = <<>>
       => /\ forwards' = forwards
          /\ outcome' \in {"ignored", "dropped"}
          /\ Head(queue).did \notin DOMAIN SUBSCRIBED_AUTHORS_DATA
             => AuthorId(SUBSCRIBED_AUTHORS_DATA, Head(queue).did) = JNone
          /\ pc' = "recv" /\ ConnState' = "Connected"
          /\ UNCHANGED <<rosterVars, backoffVars>>]_vars

\* C3 witness: a new post with text from a did outside a non-empty roster was
\* read and dropped.
C3_Witness ==
    /\ pc = "recv"
    /\ cur = Post("did:unk", Hello)
    /\ DOMAIN SUBSCRIBED_AUTHORS_DATA /= {}
    /\ outcome = "dropped"
    /\ forwards = 0

\* C4: when the roster load returns no keys (empty array, no platform_id,
\* failed request, status or decoding), the connection manager is Idle in
\* every later state: no connection is ever attempted.
C4_EmptyRosterStaysIdle ==
    response /= NoResponse /\ subscribed_dids = <<>>
    => ConnState = "Idle" /\ pc \in {"client", "exited"} /\ wanted = <<>>

\* C4 witness: the API answered with an array whose only entry has no
\* platform_id, and websocket_client has returned.
C4_Witness ==
    /\ pc = "exited"
    /\ response.status = "ok"
    /\ response.authors = <<Author(Missing, JNum(9), "C", Missing)>>
    /\ subscribed_dids = <<>>

\* A message that cannot be decoded, or is decoded but not of the expected
\* shape.
Malformed(m) == ~ExpectedShape(m)

\* C5 as stated: a malformed message causes no forward call, no error leaves
\* the dispatch, and the connection stays Connected, so the next message is
\* dispatched as if the malformed one had not arrived.
C5_AsStated ==
    [][ReceiveStep /\ Malformed(Head(queue))
       => /\ forwards' = forwards
          /\ pc' = "recv"
          /\ UNCHANGED <<rosterVars, backoffVars>>]_vars


\* The ways a forward call fails.
ForwardFailures == {"http_status_error", "request_error", "other_error"}

\* C6: when a forward call fails (status, transport error or timeout, any
\* other error), the loop is back at the read with the connection Connected,
\* no sleep is started, no further POST is issued for that message, and every
\* message read after a failure is dispatched as the dispatcher dispatches any
\* message.
C6_ForwardFailureIsContained ==
    [][/\ pc = "post" /\ outcome' \in ForwardFailures
          => /\ pc' = "recv" /\ ConnState' = "Connected"
             /\ forwards' = forwards
             /\ UNCHANGED <<queue, cur, payload, received, rosterVars, backoffVars>>
       /\ ReceiveStep /\ outcome \in ForwardFailures
          => /\ outcome' = Dispatch(SUBSCRIBED_AUTHORS_DATA, Head(queue)).result
             /\ forwards' = forwards + (IF outcome' = "post" THEN 1 ELSE 0)
             /\ cause' = "none" /\ slept' = 0]_vars

\* C6 witness: a POST has failed with an error of no httpx kind, the loop is
\* back at the read and the next message waits in the buffer.
C6_Witness ==
    /\ pc = "recv"
    /\ outcome = "other_error"
    /\ forwards = 1 /\ received = 1
    /\ queue /= <<>>
    /\ cause = "none" /\ slept = 0

\* C7 as stated: the wait before the next attempt is 5 after a clean closure
\* and 15 after every other disconnect.
C7_AsStated ==
    pc = "connect" /\ cause /= "none"
    => slept = (IF cause = "closed_ok" THEN BaselineDelay
                ELSE ErrorDelay + BaselineDelay)

\* C7 amended: the wait is 5 after the connection was closed, cleanly or with
\* an error (ConnectionClosed), and 15 = 10 + 5 after any other exception,
\* which is strictly longer.
C7_WaitByCause ==
    pc = "connect" /\ cause /= "none"
    => /\ cause \in {"closed_ok", "closed_error"} => slept = BaselineDelay
       /\ cause = "error" => slept = ErrorDelay + BaselineDelay /\ slept > BaselineDelay

\* C7 witness: the next attempt starts 5 after a closure with an error.
C7_Witness ==
    pc = "connect" /\ cause = "closed_error" /\ slept = BaselineDelay /\ received > 0

\* In the reconnect loop.
InLoop == pc \in {"connect", "recv", "post", "sleep_error", "sleep_baseline"}

\* C8: with a non-empty key set the manager in Backoff always comes back to
\* Connecting, whatever ended the connection and however often; once in the
\* loop it never leaves it (no terminal state, no return to Idle).
C8_AlwaysReconnects ==
    /\ [](ConnState = "Backoff" => <>(ConnState = "Connecting"))
    /\ [][InLoop => InLoop' /\ ConnState' /= "Idle"]_vars

\* C8 witness: a new attempt after a failed attempt that itself followed a
\* closed connection on which messages had been read.
C8_Witness ==
    /\ pc = "connect" /\ cause = "error"
    /\ slept = ErrorDelay + BaselineDelay
    /\ received = MaxMsgs
    /\ subscribed_dids /= <<>>

\* C9 as stated: only a missing base URL ends the process.
C9_AsStated == pc = "exited" => ConfigMissing(API_BASE_URL)

\* C9 amended: the process ends only without a base URL or when the roster
\* load returned no keys (before any connection attempt); no message, no
\* disconnect and no forward call precedes an exit.
C9_ExitOnlyAtStartup ==
    pc = "exited"
    => \/ ConfigMissing(API_BASE_URL) /\ response = NoResponse
       \/ /\ response /= NoResponse /\ subscribed_dids = <<>>
          /\ received = 0 /\ forwards = 0 /\ cause = "none" /\ wanted = <<>>

\* C9 witness: the base URL is set, the roster request was refused (status
\* error), and the process has ended.
C9_Witness ==
    /\ pc = "exited"
    /\ ~ConfigMissing(API_BASE_URL)
    /\ response.status = "http_status_error"

\* The elements of a sequence.
Range(q) == {q[i] : i \in DOMAIN q}

\* The last entry of the array with this platform_id.
LastWith(authors, did) ==
    authors[CHOOSE i \in DOMAIN authors :
              /\ authors[i].platform_id = did
              /\ \A j \in DOMAIN authors : authors[j].platform_id = did => j <= i]

\* C10: after a successful fetch of a non-empty array (every element an
\* object), the returned keys as a set are the non-empty platform_id values
\* of the response and are the roster's keys, and the roster holds for each
\* key the id, name and author_context of the (last) entry with that
\* platform_id; entries without a platform_id give no key and no record.
C10_RosterIsResponse ==
    /\ response.status = "ok" /\ response.body = "array"
    /\ response.authors /= <<>>
    /\ \A i \in DOMAIN response.authors : response.authors[i].obj
    => LET ids == {a.platform_id : a \in Range(response.authors)} \ {Missing, ""}
       IN  /\ Range(subscribed_dids) = ids
           /\ DOMAIN SUBSCRIBED_AUTHORS_DATA = ids
           /\ \A k \in ids :
                LET a == LastWith(response.authors, k)
                IN  SUBSCRIBED_AUTHORS_DATA[k] =
                      [id |-> a.id, name |-> a.name, author_context |-> a.author_context]

\* C10 witness: the scenario of section 8, with one more entry that has no
\* platform_id.
C10_Witness ==
    /\ response.authors = <<Author("did:abc", JNum(42), "A", Missing),
                            Author(Missing, JNum(9), "C", Missing)>>
    /\ subscribed_dids = <<"did:abc">>
    /\ DOMAIN SUBSCRIBED_AUTHORS_DATA = {"did:abc"}
    /\ SUBSCRIBED_AUTHORS_DATA["did:abc"].id = JNum(42)


\* C11 as stated: once load() has returned, the roster is the complete mapping
\* of a successful fetch or the mapping from before the call; a load that
\* returned no keys left no partly filled roster, so every key of the roster
\* was returned by the load.
C11_AsStated ==
    response /= NoResponse
    => /\ DOMAIN SUBSCRIBED_AUTHORS_DATA \subseteq Range(subscribed_dids)
       /\ subscribed_dids = <<>> => SUBSCRIBED_AUTHORS_DATA = EmptyRoster


\* C12: every connection attempt, the first and every reconnect, subscribes
\* with the whole list the roster load returned, on the one connection; the
\* list is never changed, shrunk or fetched again while the loop runs.
C12_SubscribesAllKeys ==
    /\ [](InLoop => wanted = subscribed_dids /\ wanted /= <<>>)
    /\ [][InLoop => UNCHANGED <<wanted, subscribed_dids, SUBSCRIBED_AUTHORS_DATA>>]_vars

\* C12 witness: a reconnect after a clean closure, with both keys of a
\* two-author roster in the URL.
C12_Witness ==
    /\ pc = "connect" /\ cause = "closed_ok"
    /\ subscribed_dids = <<"did:abc", "did:xyz">>
    /\ wanted = <<"did:abc", "did:xyz">>


\* C13: without a base URL the process ends at once: no roster request, no
\* connection attempt and no forward call is ever made; with a base URL the
\* step after the check is the roster request, whether or not the bearer
\* credential is set.
C13_FatalWithoutBaseUrl ==
    /\ [](API_BASE_URL = Missing
          => /\ pc \in {"config", "exited"}
             /\ response = NoResponse /\ wanted = <<>>
             /\ received = 0 /\ forwards = 0 /\ cause = "none")
    /\ [][/\ pc = "config" /\ API_BASE_URL = Missing => pc' = "exited"
          /\ pc = "config" /\ API_BASE_URL = "https://api/" => pc' = "fetch"]_vars

\* C13 witness: the base URL is set, the credential is not, and the roster
\* request has been made and answered.
C13_Witness ==
    /\ API_BASE_URL = "https://api/" /\ ADMIN_API_KEY = Missing
    /\ pc = "client"
    /\ response.status = "ok" /\ response.authors /= <<>>


\* C14: one message is in dispatch at a time, a dispatch lasting from the
\* read of the message to the end of its forward call: a message is read only
\* when the loop is at the read, never while a POST is awaited, and the
\* message read is always the oldest one buffered (arrival order).
C14_SequentialInArrivalOrder ==
    [][/\ ReceiveStep
          => /\ pc = "recv"
             /\ cur' = Head(queue)
             /\ queue' = Tail(queue)
       /\ pc = "post"
          => /\ received' = received /\ cur' = cur /\ forwards' = forwards
             /\ pc' \in {"post", "recv"}]_vars

\* C14 witness: two messages arrived before either was read; the first is in
\* dispatch, its POST awaited, and the second still waits in the buffer.
C14_Witness ==
    /\ pc = "post"
    /\ cur = Post("did:abc", Hello)
    /\ received = 1
    /\ queue = <<Post("did:abc", LongText)>>
    /\ received + Len(queue) = MaxQueue


\* A qualifying message: a new post of the expected shape, with text, from a
\* did whose roster record has a non-empty id.
Qualifying(m) ==
    /\ PostOfKnownAuthor(m)
    /\ Truthy(SUBSCRIBED_AUTHORS_DATA[m.did].id)

\* C15 as stated: the forward calls issued so far are as many as the
\* qualifying messages dispatched so far; step by step, the count grows by
\* one exactly when a qualifying message is read (also when the same message
\* is read again) and by nothing in any other step.
C15_AsStated ==
    [][/\ ReceiveStep
          => forwards' = forwards + (IF Qualifying(Head(queue)) THEN 1 ELSE 0)
       /\ ~ReceiveStep => forwards' = forwards]_vars


\* C16: once the roster load has returned, no step of the connection manager,
\* the dispatcher or the forwarder changes the roster, the dispatch of a
\* message from an unknown did included.
C16_RosterReadOnlyAfterLoad ==
    [][pc \notin {"config", "fetch"}
       => SUBSCRIBED_AUTHORS_DATA' = SUBSCRIBED_AUTHORS_DATA]_vars

\* C16 witness: a post from an unknown did was dispatched, the connection
\* was then closed with an error and the wait is over; the roster still holds
\* the two loaded keys and no other.
C16_Witness ==
    /\ pc = "connect" /\ cause = "closed_error"
    /\ cur = Post("did:unk", Hello)
    /\ DOMAIN SUBSCRIBED_AUTHORS_DATA = {"did:abc", "did:xyz"}
    /\ SUBSCRIBED_AUTHORS_DATA["did:xyz"].id = JNum(7)


\* q is what p was, with zero or more messages added behind.
Extends(q, p) == Len(q) >= Len(p) /\ SubSeq(q, 1, Len(p)) = p

\* C17: a pending forward call delays the messages behind it and drops none:
\* while the POST is awaited the buffer only grows and nothing is read; a
\* message leaves the buffer of an open connection only by being dispatched;
\* and no message waits for ever in the buffer of a connection that stays
\* open: either messages keep being read, or again and again no message
\* waits on an open connection.
C17_StuckForwardDelaysOnly ==
    /\ [][/\ pc = "post" => Extends(queue', queue) /\ received' = received
          /\ ConnState' = "Connected" /\ ~Extends(queue', queue)
             => ReceiveStep /\ cur' = Head(queue) /\ queue' = Tail(queue)]_vars
    /\ \/ []<><<ReceiveStep>>_vars
       \/ []<>(~(ConnState = "Connected" /\ queue /= <<>>))

\* C17 witness: a POST ended in a timeout, and the message that arrived while
\* it was awaited is still in the buffer, next to be read.
C17_Witness ==
    /\ pc = "recv"
    /\ outcome = "request_error"
    /\ cur = Post("did:abc", LongText)
    /\ queue = <<Post("did:unk", Hello)>>
    /\ received = 1 /\ forwards = 1


\* C18: a connection attempt that fails goes the way of the generic handler:
\* the manager leaves Connecting for Backoff with nothing slept yet, and from
\* there always comes to a new attempt, made 15 = 10 + 5 after the failure.
C18_FailedAttemptRetriesAfter15 ==
    /\ [][pc = "connect" /\ pc' \notin {"connect", "recv"}
          => pc' = "sleep_error" /\ cause' = "error" /\ slept' = 0]_vars
    /\ [](pc = "sleep_error"
          => <>(/\ pc = "connect" /\ cause = "error"
                /\ slept = ErrorDelay + BaselineDelay))

\* C18 witness: a new attempt 15 after a failed one, with no message ever
\* read by the process.
C18_Witness ==
    /\ pc = "connect" /\ cause = "error"
    /\ slept = ErrorDelay + BaselineDelay
    /\ received = 0 /\ cur = NoMessage /\ outcome = "none"


\* C19: at most one connection is open or being opened: a connection is open
\* exactly while the manager is Connected; an attempt starts only from the
\* start of the client or from the end of the baseline sleep, with the
\* previous connection closed and the whole wait (5 or 15) slept; and no
\* message is read and no POST issued in Backoff or Connecting.
C19_OneConnectionAtATime ==
    /\ [](/\ connections \in {0, 1}
          /\ connections = 1 <=> ConnState = "Connected"
          /\ ConnState \in {"Backoff", "Connecting"} => queue = <<>>)
    /\ [][/\ pc' = "connect" /\ pc /= "connect"
             => \/ pc = "client"
                \/ /\ pc = "sleep_baseline" /\ connections = 0
                   /\ slept' = slept + BaselineDelay
                   /\ slept' = (IF cause = "error" THEN ErrorDelay ELSE 0) + BaselineDelay
          /\ ReceiveStep \/ forwards' /= forwards
             => ConnState = "Connected" /\ connections = 1]_vars

\* C19 witness: after a connection on which a POST was made was closed and
\* the wait slept, the next attempt starts with no connection open.
C19_Witness ==
    /\ pc = "connect" /\ connections = 0
    /\ cause = "closed_ok" /\ slept = BaselineDelay
    /\ forwards = 1 /\ outcome = "sent"

==========================================================================
